---------------------------- MODULE Spec2Model ----------------------------
(***************************************************************************)
(* A model of epupp, the epub parser: the EpuPP session class of           *)
(* src/modules/epupp.py (and its earlier revision src/epupp.py), the       *)
(* helpers of src/modules/epuppies.py and the two command line drivers.    *)
(*                                                                         *)
(* Python strings are modelled as sequences of tokens; the substring test  *)
(* `marker in filename` is the operator Contains.  A session is a          *)
(* sequential object: every public method is one atomic action.            *)
(***************************************************************************)
EXTENDS Naturals, Sequences, FiniteSets

\* ------------------------------------------------------------------ bounds

\* longest manifest (number of pkg:item elements) explored
MaxFiles == 2
\* longest hyperlink reference (in characters) explored
MaxLinkLen == 4
\* most navPoint elements in a navigation document explored
MaxNav == 2

\* ----------------------------------------------------------------- strings

\* str + str
Cat(a, b) == a \o b

\* the markers the code searches for, and the tokens that contain each
Marks(tok) ==
    CASE tok = "images" -> {"images"}
      [] tok = "cover"  -> {"cover"}
      [] tok = ".html"  -> {".htm", "htm"}
      [] tok = ".xhtml" -> {"htm"}
      [] tok = ".xml"   -> {".xml", "xml"}
      [] tok = ".ncx"   -> {".ncx"}
      [] OTHER          -> {}

\* marker in s
Contains(s, marker) == \E i \in 1..Len(s) : marker \in Marks(s[i])

\* s.rstrip("/")
RECURSIVE Rstrip(_)
Rstrip(s) ==
    IF s # <<>> /\ s[Len(s)] = "/" THEN Rstrip(SubSeq(s, 1, Len(s) - 1)) ELSE s

\* Python's None, as a returned value
None == [type |-> "NoneType", val |-> <<>>]

Value(t, v) == [type |-> t, val |-> v]

\* the empty dict
EmptyDict == [k \in {} |-> <<>>]

\* -------------------------------------------------- find_file (epuppies.py)

\* archive.read(name) succeeds exactly for the names of the archive
CanRead(entries, name) == name \in entries

\* new_filename is overwritten before each read, and the last assignment
\* (line 52) stands when the third read fails too
find_file(entries, filename) ==
    IF CanRead(entries, filename) THEN filename
    ELSE IF CanRead(entries, Cat(<<"OPS/">>, filename)) THEN Cat(<<"OPS/">>, filename)
    ELSE Cat(<<"OEBPS/">>, filename)

\* ------------------------------------- rewrite_links (epuppies.build_chapter)

\* the characters of the references explored; " " is the whitespace
LinkChars == {"a", "b", "#", " "}

\* \S
NonSpace(c) == c # " "

\* the end of the run of \S that starts at the first character (0: none)
RECURSIVE RunEnd(_, _)
RunEnd(s, i) ==
    IF i <= Len(s) /\ NonSpace(s[i]) THEN RunEnd(s, i + 1) ELSE i - 1

\* re.match(r'\S+(#\S+)', s): \S+ first takes the whole run, then gives back one
\* character at a time until "#" and one more \S follow.  The result is the
\* length of what the first \S+ keeps, 0 when nothing matches.
RECURSIVE Backtrack(_, _)
Backtrack(s, k) ==
    IF k < 1 THEN 0
    ELSE IF k + 2 <= Len(s) /\ s[k + 1] = "#" /\ NonSpace(s[k + 2]) THEN k
    ELSE Backtrack(s, k - 1)

\* a reluctant first \S+? instead of the greedy one
RECURSIVE Reluctant(_, _)
Reluctant(s, k) ==
    IF k + 2 > Len(s) \/ ~NonSpace(s[k]) THEN 0
    ELSE IF s[k + 1] = "#" /\ NonSpace(s[k + 2]) THEN k
    ELSE Reluctant(s, k + 1)

rewrite_links_reluctant(link) ==
    LET k == IF link = <<>> THEN 0 ELSE Reluctant(link, 1)
    IN  IF k > 0 THEN SubSeq(link, k + 1, RunEnd(link, k + 2)) ELSE link

\* match.group(1) if match else link
rewrite_links(link) ==
    LET k == Backtrack(link, RunEnd(link, 1))
    IN  IF k > 0 THEN SubSeq(link, k + 1, RunEnd(link, k + 2)) ELSE link


\* ------------------------------------------------------------- the archive

\* the six Dublin Core fields, in the order of the loop of get_epub_info
FieldSeq == <<"title", "language", "creator", "date", "identifier", "description">>

Fields == {FieldSeq[i] : i \in 1..Len(FieldSeq)}

\* the states of an archive's text: Mutate rewrites every text of the archive
Versions == {"v1", "v2"}

\* the text of an element of the archive
Text(what, ver) == <<what, ver>>

EmptyStr == <<>>

\* manifest references (pkg:item/@href) explored
N_cover == <<"images", "/", "cover", ".jpg">>
N_pic   == <<"images", "/", "pic", ".png">>
N_ch1   == <<"ch1", ".html">>
N_page  == <<"cover", ".xml">>
N_empty == <<"empty", ".html">>

\* the cover image an archive is given in place of N_cover (Repack)
N_cover2 == <<"images", "/", "cover", ".png">>

ManifestNames == {N_cover, N_pic, N_ch1, N_page, N_empty}

\* what the bytes of a content document are: N_empty is an entry of no bytes
DocKind(name) == IF name = N_empty THEN "empty" ELSE "html"

RECURSIVE SeqsUpTo(_, _)
SeqsUpTo(S, n) ==
    IF n = 0 THEN {<<>>}
    ELSE LET shorter == SeqsUpTo(S, n - 1)
         IN  shorter \cup {Append(q, x) : q \in {r \in shorter : Len(r) = n - 1}, x \in S}

Range(q) == {q[i] : i \in 1..Len(q)}

\* the folder the content documents of an archive live under
Layouts == {<<>>, <<"OPS/">>, <<"OEBPS/">>}

E_container == <<"META-INF/container.xml">>
E_package   == <<"content.opf">>
E_metadata  == <<"META-INF/metadata.xml">>
E_ncx       == <<"toc", ".ncx">>

\* what the package descriptor lookup finds in the archive
CfKinds == {"ok", "no_container", "bad_container", "no_rootfile", "no_package", "bad_package"}

\* a navPoint element of the navigation document: which of its three parts it has
NavSources == [id : BOOLEAN, label : BOOLEAN, src : BOOLEAN]

NoNcx == [kind |-> "none", title |-> FALSE, author |-> FALSE, navpoints |-> <<>>]

BadNcx == [kind |-> "bad", title |-> FALSE, author |-> FALSE, navpoints |-> <<>>]

NcxDoc(t, a, nps) == [kind |-> "doc", title |-> t, author |-> a, navpoints |-> nps]

FullNav == [id |-> TRUE, label |-> TRUE, src |-> TRUE]

\* an archive: the state of the zip file the session reads
Archive(cf, meta, dc, manifest, files, layout, present, genres, ncx, ver) ==
    [cf |-> cf, meta |-> meta, dc |-> dc, manifest |-> manifest, files |-> files,
     layout |-> layout, present |-> present, genres |-> genres, ncx |-> ncx,
     ver |-> ver]

\* ZipFile.namelist(), the content documents and assets of it
Entries(a) == {Cat(a.layout, f) : f \in a.present}

\* ------------------------------------------------ outcomes of a method call

\* the element of a one-element set: Only({e(x) : x \in {c}}) is e(c), with the
\* call c evaluated once however often e uses x
Only(S) == CHOOSE x \in S : TRUE

\* d[k] = v
Put(d, k, v) ==
    Only({[x \in (DOMAIN dd) \cup {k} |-> IF x = k THEN vv ELSE dd[x]] :
            dd \in {d}, vv \in {v}})

\* a call that returned val, leaving epub_info as info, having read `reads`
\* from the archive and copied `copied` out of it
Ok(val, info, reads, copied) ==
    [exc |-> "none", val |-> val, info |-> info, reads |-> reads, copied |-> copied]

\* a call that an exception of class e escaped
Raise(e, info, reads, copied) ==
    [exc |-> e, val |-> None, info |-> info, reads |-> reads, copied |-> copied]

\* ---------------------------------- EpuPP, the private methods (modules/epupp.py)

\* etree.Element("package"): a descriptor with no metadata and no manifest
EmptyPackage(a) ==
    [meta |-> FALSE, dc |-> {}, manifest |-> FALSE, files |-> <<>>, ver |-> a.ver]

\* __get_cftree: KeyError and IndexError are caught, a syntax error of either
\* document (lxml.etree.XMLSyntaxError) is not
get_cftree(a) ==
    CASE a.cf = "no_container"  -> Ok(EmptyPackage(a), EmptyDict, {E_container}, {})
      [] a.cf = "bad_container" -> Raise("XMLSyntaxError", EmptyDict, {E_container}, {})
      [] a.cf = "no_rootfile"   -> Ok(EmptyPackage(a), EmptyDict, {E_container}, {})
      [] a.cf = "no_package"    -> Ok(EmptyPackage(a), EmptyDict, {E_container, E_package}, {})
      [] a.cf = "bad_package"   -> Raise("XMLSyntaxError", EmptyDict, {E_container, E_package}, {})
      [] OTHER                  ->
            Ok([meta |-> a.meta, dc |-> a.dc, manifest |-> a.manifest,
                files |-> a.files, ver |-> a.ver],
               EmptyDict, {E_container, E_package}, {})

\* __get_files: the manifest's hrefs, [] when there is no manifest
get_files(a) ==
    Only({IF t.exc # "none" THEN t
          ELSE Ok(IF t.val.manifest THEN t.val.files ELSE <<>>, EmptyDict, t.reads, {}) :
            t \in {get_cftree(a)}})

\* __get_genres
get_genres(info, a) ==
    IF "genres" \in DOMAIN info THEN Ok(info["genres"], info, {}, {})
    ELSE CASE a.genres = "missing" -> Ok(Value("list", <<>>), info, {E_metadata}, {})
           [] a.genres = "bad"     -> Raise("XMLSyntaxError", info, {E_metadata}, {})
           [] OTHER -> Ok(Value("list", <<Text("genre", a.ver)>>), info, {E_metadata}, {})

\* the navPoint loop of __get_table_of_contents: the points from the i-th on
RECURSIVE NavPoints(_, _, _)
NavPoints(nps, i, ver) ==
    IF i > Len(nps) THEN <<>>
    ELSE IF nps[i].id /\ nps[i].label /\ nps[i].src
         THEN <<[raw_id |-> i, text |-> Text("label", ver), done_id |-> i]>>
              \o NavPoints(nps, i + 1, ver)
         ELSE NavPoints(nps, i + 1, ver)

Toc(title, author, navpoints) ==
    Value("dict", [title |-> title, author |-> author, navpoints |-> navpoints])

\* __get_table_of_contents: the title, the author and the navMap are read in one
\* try block, whose IndexError handler ends the work on the document
get_table_of_contents(info, a) ==
    IF "table_of_contents" \in DOMAIN info
    THEN Ok(info["table_of_contents"], info, {}, {})
    ELSE CASE a.ncx.kind = "none" -> Ok(Toc(None, None, <<>>), info, {}, {})
           [] a.ncx.kind = "bad"  -> Raise("XMLSyntaxError", info, {E_ncx}, {})
           [] OTHER ->
                IF ~a.ncx.title THEN Ok(Toc(None, None, <<>>), info, {E_ncx}, {})
                ELSE IF ~a.ncx.author
                THEN Ok(Toc(Value("str", Text("docTitle", a.ver)), None, <<>>),
                        info, {E_ncx}, {})
                ELSE Ok(Toc(Value("str", Text("docTitle", a.ver)),
                            Value("str", Text("docAuthor", a.ver)),
                            NavPoints(a.ncx.navpoints, 1, a.ver)),
                        info, {E_ncx}, {})

\* the loop over the six fields (lines 96-101): a field the block lacks is ""
RECURSIVE Repackage(_, _, _)
Repackage(info, tree, i) ==
    IF i > Len(FieldSeq) THEN info
    ELSE Repackage(Put(info, FieldSeq[i],
                       IF tree.meta /\ FieldSeq[i] \in tree.dc
                       THEN Value("str", Text(FieldSeq[i], tree.ver))
                       ELSE Value("str", EmptyStr)),
                   tree, i + 1)

\* the table of contents stored after the genres (line 104)
FillToc(i7, a, rd) ==
    Only({IF c.exc # "none" THEN Raise(c.exc, i7, rd \cup c.reads, {})
          ELSE Only({Ok(Value("dict", i8), i8, rd \cup c.reads, {}) :
                       i8 \in {Put(i7, "table_of_contents", c.val)}}) :
            c \in {get_table_of_contents(i7, a)}})

\* the genres stored after the six fields (line 103)
FillGenres(i6, a, rd) ==
    Only({IF g.exc # "none" THEN Raise(g.exc, i6, rd \cup g.reads, {})
          ELSE Only({FillToc(i7, a, rd \cup g.reads) : i7 \in {Put(i6, "genres", g.val)}}) :
            g \in {get_genres(i6, a)}})

\* the body of get_epub_info under `if not self.epub_info` (lines 88-104): an
\* exception leaves behind the keys stored before it
fill_epub_info(info, a) ==
    Only({IF t.exc # "none" THEN Raise(t.exc, info, t.reads, {})
          ELSE Only({FillGenres(i6, a, t.reads) : i6 \in {Repackage(info, t.val, 1)}}) :
            t \in {get_cftree(a)}})

\* get_epub_info without the test of line 86: the record is filled on every call
get_epub_info_always(info, a) == fill_epub_info(info, a)

\* get_epub_info, after the test of self.ifile: epub_info is filled when it is
\* empty and returned (the dict itself) in any case
get_epub_info(info, a) ==
    IF DOMAIN info # {} THEN Ok(Value("dict", info), info, {}, {})
    ELSE fill_epub_info(info, a)

\* ------------------------------------------------------------ build_chapter

\* the names find_file asks the archive for
FindProbes(entries, filename) ==
    {filename}
    \cup (IF CanRead(entries, filename) THEN {} ELSE {Cat(<<"OPS/">>, filename)})
    \cup (IF CanRead(entries, filename) \/ CanRead(entries, Cat(<<"OPS/">>, filename))
          THEN {} ELSE {Cat(<<"OEBPS/">>, filename)})

\* the manifest reference an archive name stands for
Unprefixed(name) ==
    IF name # <<>> /\ name[1] \in {"OPS/", "OEBPS/"} THEN Tail(name) ELSE name

\* build_chapter of epuppies.py on the open archive entry `name`: a section that
\* holds the children of the document's body.  html.fromstring of no bytes
\* raises lxml.etree.ParserError, which the except clause does not name.
build_chapter(name, ver) ==
    IF DocKind(Unprefixed(name)) = "empty" THEN Raise("ParserError", EmptyDict, {name}, {})
    ELSE Ok([tag |-> "section", attrib |-> EmptyDict, body |-> Text(name, ver),
             images |-> EmptyStr],
            EmptyDict, {name}, {})

\* build_chapter of modules/helpers.py, called with images_path, as section 4.6
\* of the specification has it: the same section, its asset references
\* redirected under images_path; a parse failure is caught and the section
\* comes back empty
helpers_build_chapter(name, ver, images_path) ==
    Only({IF c.exc # "none"
          THEN Ok([tag |-> "section", attrib |-> EmptyDict, body |-> EmptyStr,
                   images |-> images_path],
                  EmptyDict, c.reads, {})
          ELSE Ok([c.val EXCEPT !.images = images_path], EmptyDict, c.reads, {}) :
            c \in {build_chapter(name, ver)}})

\* html.tostring(element).decode('utf-8')
ToString(element) == Value("str", [markup |-> element])

\* chapter.attrib[key] = v
SetAttrib(element, key, v) == [element EXCEPT !.attrib = Put(element.attrib, key, v)]

\* ------------------------------------- EpuPP.__get_book_dir, extract_images

\* the constructor's defaults (line 31)
BasePath == <<".", "/">>

OFile == <<"output", ".html">>

\* "%s/%s" % (a, b)
Join(a, b) == Cat(Cat(a, <<"/">>), b)

\* __get_book_dir: the directory is made and stored on the first call
get_book_dir(info, a) ==
    IF "book_dir" \in DOMAIN info THEN Ok(info["book_dir"], info, {}, {})
    ELSE Only({
           IF g.exc # "none" THEN g
           ELSE IF {"title", "identifier"} \subseteq DOMAIN g.info
           THEN Only({Ok(directory, Put(g.info, "book_dir", directory), g.reads, {}) :
                        directory \in
                          {Value("str", Join(Join(Rstrip(BasePath), g.info["title"].val),
                                             g.info["identifier"].val))}})
           ELSE Ok(None, Put(g.info, "book_dir", None), g.reads, {}) :
             g \in {get_epub_info(info, a)}})

\* open(path, "wb") finds the directory of path: the book directory itself and
\* its images/ were made, no other
CanWrite(filename) ==
    \/ \A i \in 1..Len(filename) : filename[i] # "/"
    \/ Len(filename) > 2 /\ filename[1] = "images" /\ filename[2] = "/"
       /\ \A i \in 3..Len(filename) : filename[i] # "/"

\* the loop of extract_images with the cover recorded for every item whose name
\* holds the cover marker, before the item is looked for
CopyImage_any_cover(filename, entries, dir, acc) ==
    IF ~Contains(filename, "cover") THEN acc
    ELSE [acc EXCEPT !.info = Put(@, "cover", Value("str", Join(dir, filename)))]

\* one pass of the loop of extract_images (lines 122-133) on the outcome so far
CopyImage(filename, entries, dir, acc) ==
    IF ~Contains(filename, "images") THEN acc
    ELSE Only({
           IF ~CanRead(entries, original)
           THEN [acc EXCEPT !.reads = @ \cup FindProbes(entries, filename) \cup {original}]
           ELSE IF ~CanWrite(filename)
           THEN Raise("FileNotFoundError", acc.info,
                      acc.reads \cup FindProbes(entries, filename) \cup {original},
                      acc.copied)
           ELSE [acc EXCEPT
                   !.reads = @ \cup FindProbes(entries, filename) \cup {original},
                   !.copied = @ \cup {filename},
                   !.info = IF Contains(filename, "cover")
                            THEN Put(@, "cover", Value("str", Join(dir, filename)))
                            ELSE @] :
             original \in {find_file(entries, filename)}})

\* the loop of extract_images from the i-th manifest item on: an exception
\* ends it
RECURSIVE CopyImages(_, _, _, _, _)
CopyImages(files, i, entries, dir, acc) ==
    IF i > Len(files) \/ acc.exc # "none" THEN acc
    ELSE Only({CopyImages(files, i + 1, entries, dir, next) :
                 next \in {CopyImage(files[i], entries, dir, acc)}})

\* extract_images from line 118 on, the book directory being d.val
ExtractInto(d, a) ==
    Only({IF f.exc # "none" THEN Raise(f.exc, d.info, d.reads \cup f.reads, {})
          ELSE Only({CopyImages(f.val, 1, Entries(a), d.val.val,
                                Ok(images, Put(d.info, "images", images),
                                   d.reads \cup f.reads, {})) :
                       images \in {Value("str", Cat(Join(d.val.val, <<"images">>), <<"/">>))}}) :
            f \in {get_files(a)}})

\* extract_images, after the test of self.ifile
extract_images(info, a) ==
    Only({IF d.exc # "none" THEN d
          ELSE IF d.val = None THEN Ok(None, d.info, d.reads, {})
          ELSE ExtractInto(d, a) :
            d \in {get_book_dir(info, a)}})

\* --------------------------------------------------------- EpuPP.get_chapters

\* one pass of the loop of the as_list branch (lines 178-187): the serialized
\* chapters so far are acc.val
ChapterAsList(filename, entries, ver, images_path, acc) ==
    IF ~(Contains(filename, ".htm") \/ Contains(filename, ".xml")) THEN acc
    ELSE Only({
           IF ~CanRead(entries, original)
           THEN [acc EXCEPT !.reads = @ \cup FindProbes(entries, filename) \cup {original}]
           ELSE Only({
                  IF c.exc # "none"
                  THEN Raise(c.exc, acc.info,
                             acc.reads \cup FindProbes(entries, filename) \cup {original},
                             acc.copied)
                  ELSE [acc EXCEPT
                          !.reads = @ \cup FindProbes(entries, filename) \cup {original},
                          !.val = Append(@, ToString(SetAttrib(c.val, "id", filename)))] :
                    c \in {helpers_build_chapter(original, ver, images_path)}}) :
             original \in {find_file(entries, filename)}})

RECURSIVE ChaptersAsList(_, _, _, _, _, _)
ChaptersAsList(files, i, entries, ver, images_path, acc) ==
    IF i > Len(files) \/ acc.exc # "none" THEN acc
    ELSE Only({ChaptersAsList(files, i + 1, entries, ver, images_path, next) :
                 next \in {ChapterAsList(files[i], entries, ver, images_path, acc)}})

\* one pass of the loop of the other branch (lines 190-199): the children of
\* the div so far are acc.val
ChapterAsDiv(filename, entries, ver, images_path, acc) ==
    IF ~(Contains(filename, ".htm") \/ Contains(filename, ".xml")) THEN acc
    ELSE Only({
           IF ~CanRead(entries, original)
           THEN [acc EXCEPT !.reads = @ \cup FindProbes(entries, filename) \cup {original}]
           ELSE Only({
                  IF c.exc # "none"
                  THEN Raise(c.exc, acc.info,
                             acc.reads \cup FindProbes(entries, filename) \cup {original},
                             acc.copied)
                  ELSE [acc EXCEPT
                          !.reads = @ \cup FindProbes(entries, filename) \cup {original},
                          !.val = Append(@, SetAttrib(c.val, "id", filename))] :
                    c \in {helpers_build_chapter(original, ver, images_path)}}) :
             original \in {find_file(entries, filename)}})

RECURSIVE ChaptersAsDiv(_, _, _, _, _, _)
ChaptersAsDiv(files, i, entries, ver, images_path, acc) ==
    IF i > Len(files) \/ acc.exc # "none" THEN acc
    ELSE Only({ChaptersAsDiv(files, i + 1, entries, ver, images_path, next) :
                 next \in {ChapterAsDiv(files[i], entries, ver, images_path, acc)}})

\* etree.Element("div") with the chapters appended
Div(children) == [tag |-> "div", children |-> children]

\* the images_path argument left unset
NoPath == None

\* images_path as lines 159-165 choose it
ImagesPath(images_arg, info) ==
    IF images_arg # NoPath THEN images_arg
    ELSE IF "images" \in DOMAIN info THEN info["images"]
    ELSE Value("str", <<"images", "/">>)

\* get_chapters from line 171 on: x is the outcome of the lines before
AssembleChapters(x, a, images_path, as_list) ==
    Only({
      IF f.exc # "none" THEN Raise(f.exc, x.info, x.reads \cup f.reads, x.copied)
      ELSE IF as_list
      THEN Only({IF r.exc # "none" THEN r
                 ELSE Ok(Value("list", r.val), r.info, r.reads, r.copied) :
                   r \in {ChaptersAsList(f.val, 1, Entries(a), a.ver, images_path.val,
                                         Ok(<<>>, x.info, x.reads \cup f.reads, x.copied))}})
      ELSE Only({IF r.exc # "none" THEN r
                 ELSE Ok(ToString(Div(r.val)), r.info, r.reads, r.copied) :
                   r \in {ChaptersAsDiv(f.val, 1, Entries(a), a.ver, images_path.val,
                                        Ok(<<>>, x.info, x.reads \cup f.reads, x.copied))}}) :
        f \in {get_files(a)}})

\* get_chapters, after the test of self.ifile.  The image prefix is chosen
\* (lines 158-165) before extract_images runs (line 169).
get_chapters(info, a, do_extract, images_arg, as_list) ==
    Only({
      IF g.exc # "none" THEN g
      ELSE Only({
             IF x.exc # "none" THEN Raise(x.exc, x.info, g.reads \cup x.reads, x.copied)
             ELSE AssembleChapters([x EXCEPT !.reads = @ \cup g.reads], a,
                                   ImagesPath(images_arg, g.info), as_list) :
               x \in {IF do_extract THEN extract_images(g.info, a)
                      ELSE Ok(None, g.info, {}, {})}}) :
        g \in {get_epub_info(info, a)}})

\* ------------------------------------------------------- EpuPP.write_to_file

\* the optional_filename arguments explored: "" and the name the drivers pass
OptionalNames == {EmptyStr, <<"epub_info", ".json">>}

\* the file written to (line 217)
FileArg(optional_filename) ==
    IF optional_filename # EmptyStr THEN optional_filename ELSE OFile

\* write_to_file, after the test of self.ifile: the path written to, 'book' set
\* when the file is the session's output file
write_to_file(info, a, optional_filename) ==
    IF FileArg(optional_filename) = EmptyStr THEN Ok(None, info, {}, {})
    ELSE Only({
           IF d.exc # "none" THEN d
           ELSE IF d.val = None THEN Ok(None, d.info, d.reads, {})
           ELSE Only({Ok(path,
                         IF FileArg(optional_filename) = OFile
                         THEN Put(d.info, "book", path) ELSE d.info,
                         d.reads, {}) :
                        path \in {Value("str", Join(d.val.val, FileArg(optional_filename)))}}) :
             d \in {get_book_dir(info, a)}})

\* ------------------------------------- the earlier revision (src/epupp.py)

\* the loop of the earlier get_epub_info (lines 71-72), inside the try block:
\* the first field the block lacks raises IndexError and ends the loop
RECURSIVE LegacyRepackage(_, _, _)
LegacyRepackage(info, tree, i) ==
    IF i > Len(FieldSeq) THEN [done |-> TRUE, info |-> info]
    ELSE IF FieldSeq[i] \in tree.dc
    THEN LegacyRepackage(Put(info, FieldSeq[i], Value("str", Text(FieldSeq[i], tree.ver))),
                         tree, i + 1)
    ELSE [done |-> FALSE, info |-> info]

\* the genres stored after the loop (line 73)
LegacyFillGenres(info, a, rd) ==
    Only({IF g.exc # "none" THEN Raise(g.exc, info, rd \cup g.reads, {})
          ELSE Only({Ok(Value("dict", i7), i7, rd \cup g.reads, {}) :
                       i7 \in {Put(info, "genres", g.val)}}) :
            g \in {get_genres(info, a)}})

\* get_epub_info of src/epupp.py, after the test of self.ifile
legacy_get_epub_info(info, a) ==
    IF DOMAIN info # {} THEN Ok(Value("dict", info), info, {}, {})
    ELSE Only({
           IF t.exc # "none" THEN Raise(t.exc, info, t.reads, {})
           ELSE IF ~t.val.meta THEN Ok(Value("dict", info), info, t.reads, {})
           ELSE Only({IF ~r.done THEN Ok(Value("dict", r.info), r.info, t.reads, {})
                      ELSE LegacyFillGenres(r.info, a, t.reads) :
                        r \in {LegacyRepackage(info, t.val, 1)}}) :
             t \in {get_cftree(a)}})

\* str(i) of the enumerate index of a manifest item
Str(i) == <<"str", i>>

\* one pass of the loop of the earlier get_chapters_list (lines 149-159) when
\* as_list, of the earlier get_chapters (lines 121-131) otherwise; i counts from 0
LegacyChapter(filename, i, entries, ver, as_list, acc) ==
    IF ~(Contains(filename, "htm") \/ Contains(filename, "xml")) THEN acc
    ELSE Only({
           IF ~CanRead(entries, original)
           THEN [acc EXCEPT !.reads = @ \cup FindProbes(entries, filename) \cup {original}]
           ELSE Only({
                  IF c.exc # "none"
                  THEN Raise(c.exc, acc.info,
                             acc.reads \cup FindProbes(entries, filename) \cup {original},
                             acc.copied)
                  ELSE [acc EXCEPT
                          !.reads = @ \cup FindProbes(entries, filename) \cup {original},
                          !.val = Append(@, IF as_list
                                            THEN ToString(SetAttrib(c.val, "data-cid", Str(i)))
                                            ELSE SetAttrib(c.val, "data-cid", Str(i)))] :
                    c \in {build_chapter(original, ver)}}) :
             original \in {find_file(entries, filename)}})

RECURSIVE LegacyChapters(_, _, _, _, _, _)
LegacyChapters(files, i, entries, ver, as_list, acc) ==
    IF i > Len(files) \/ acc.exc # "none" THEN acc
    ELSE Only({LegacyChapters(files, i + 1, entries, ver, as_list, next) :
                 next \in {LegacyChapter(files[i], i - 1, entries, ver, as_list, acc)}})

\* get_chapters (as_list false) and get_chapters_list (as_list true) of
\* src/epupp.py, after the test of self.ifile
legacy_get_chapters(info, a, as_list) ==
    Only({
      IF f.exc # "none" THEN Raise(f.exc, info, f.reads, {})
      ELSE Only({
             IF r.exc # "none" THEN r
             ELSE IF as_list THEN Ok(Value("list", r.val), r.info, r.reads, r.copied)
             ELSE Ok(ToString([tag |-> "main", children |-> r.val]),
                     r.info, r.reads, r.copied) :
               r \in {LegacyChapters(f.val, 1, Entries(a), a.ver, as_list,
                                     Ok(<<>>, info, f.reads, {}))}}) :
        f \in {get_files(a)}})

\* ---------------------------------------------------------------- the state

VARIABLES
    archive,     \* the zip file at the input path, when there is one
    input_file,  \* what is at the input path: "valid", "missing", "not_zip"
    rev,         \* the revision of the class: "modules" or "legacy"
    phase,       \* "new", "active", "raised", "ended", "ctor_raised"
    ifile,       \* self.ifile: "unset", "" or "ZipFile"
    handle,      \* the archive handle: "none", "open", "closed"
    epub_info,   \* self.epub_info
    op,          \* the method called last, with its arguments
    ret,         \* what it returned (None when it raised)
    exc,         \* the exception that escaped it, or "none"
    last_read,   \* the archive names it asked the archive for
    copied,      \* the manifest items extract_images has read and written so far
    first_info,  \* the record the first get_epub_info of the session returned
    fn_in,       \* the argument of a helper under test
    fn_out,      \* its result
    fn_pc        \* "call" before, "done" after

vars == <<archive, input_file, rev, phase, ifile, handle, epub_info, op,
          ret, exc, last_read, copied, first_info, fn_in, fn_out, fn_pc>>

session == <<phase, ifile, handle, epub_info, op, ret, exc, last_read, copied, first_info>>

helper == <<fn_in, fn_out, fn_pc>>

\* a method name and its arguments
Call(name, args) == [name |-> name, args |-> args]

\* first_info when the session does not keep it
Untracked == Value("untracked", <<>>)

\* the state before the constructor runs; `first` is None when the session
\* keeps the first record get_epub_info returns, Untracked when it does not
NewSession(first) ==
    /\ phase = "new"
    /\ ifile = "unset"
    /\ handle = "none"
    /\ epub_info = EmptyDict
    /\ op = Call("none", <<>>)
    /\ ret = None
    /\ exc = "none"
    /\ last_read = {}
    /\ copied = {}
    /\ first_info = first

NoHelper == fn_in = <<>> /\ fn_out = <<>> /\ fn_pc = "idle"

\* ------------------------------------------------------------- the sessions

\* __init__ (modules/epupp.py 31-59, src/epupp.py 26-50): FileNotFoundError is
\* caught; zipfile.BadZipFile, raised for a file that is no zip archive, is not
Construct ==
    /\ phase = "new"
    /\ op' = Call("__init__", <<>>)
    /\ CASE input_file = "valid" ->
              /\ ifile' = "ZipFile" /\ handle' = "open"
              /\ phase' = "active" /\ exc' = "none"
         [] input_file = "missing" ->
              /\ ifile' = "" /\ handle' = "none"
              /\ phase' = "active" /\ exc' = "none"
         [] OTHER ->
              /\ ifile' = "unset" /\ handle' = "none"
              /\ phase' = "ctor_raised" /\ exc' = "BadZipFile"
    /\ UNCHANGED <<archive, input_file, rev, epub_info, ret, last_read,
                   copied, first_info, helper>>

\* the state after a method call with outcome r (the actions bind r with \E,
\* which evaluates the call once)
Returned(name, args, r) ==
    /\ op' = Call(name, args)
    /\ ret' = r.val
    /\ exc' = r.exc
    /\ epub_info' = r.info
    /\ last_read' = r.reads
    /\ copied' = copied \cup r.copied
    /\ phase' = IF r.exc = "none" THEN "active" ELSE "raised"

\* a method without the test of self.ifile: "" has none of a ZipFile's methods
Absent_unguarded(name, args) ==
    /\ op' = Call(name, args)
    /\ ret' = None
    /\ exc' = "AttributeError"
    /\ last_read' = {}
    /\ phase' = "raised"
    /\ UNCHANGED <<epub_info, copied>>

\* a method that returns at its first line: `if not self.ifile: return`
Absent(name, args) ==
    /\ op' = Call(name, args)
    /\ ret' = None
    /\ exc' = "none"
    /\ last_read' = {}
    /\ UNCHANGED <<epub_info, copied, phase>>

\* the first record get_epub_info returned
NoteInfo(r) ==
    first_info' = IF first_info = None /\ r.exc = "none" THEN r.val ELSE first_info

GetEpubInfo ==
    /\ phase = "active" /\ rev = "modules"
    /\ IF ifile = "" THEN Absent("get_epub_info", <<>>) /\ UNCHANGED first_info
       ELSE \E r \in {get_epub_info(epub_info, archive)} :
                Returned("get_epub_info", <<>>, r) /\ NoteInfo(r)
    /\ UNCHANGED <<archive, input_file, rev, ifile, handle, helper>>

ExtractImages ==
    /\ phase = "active" /\ rev = "modules"
    /\ IF ifile = "" THEN Absent("extract_images", <<>>)
       ELSE \E r \in {extract_images(epub_info, archive)} :
                Returned("extract_images", <<>>, r)
    /\ UNCHANGED <<archive, input_file, rev, ifile, handle, first_info, helper>>

\* the images_path arguments explored
ImageArgs == {NoPath, Value("str", <<"custom", "/">>)}

GetChapters(do_extract, images_arg, as_list) ==
    /\ phase = "active" /\ rev = "modules"
    /\ IF ifile = "" THEN Absent("get_chapters", <<do_extract, images_arg, as_list>>)
       ELSE \E r \in {get_chapters(epub_info, archive, do_extract, images_arg, as_list)} :
                Returned("get_chapters", <<do_extract, images_arg, as_list>>, r)
    /\ UNCHANGED <<archive, input_file, rev, ifile, handle, first_info, helper>>

WriteToFile(optional_filename) ==
    /\ phase = "active" /\ rev = "modules"
    /\ IF ifile = "" THEN Absent("write_to_file", <<optional_filename>>)
       ELSE \E r \in {write_to_file(epub_info, archive, optional_filename)} :
                Returned("write_to_file", <<optional_filename>>, r)
    /\ UNCHANGED <<archive, input_file, rev, ifile, handle, first_info, helper>>

LegacyGetEpubInfo ==
    /\ phase = "active" /\ rev = "legacy"
    /\ IF ifile = "" THEN Absent("get_epub_info", <<>>) /\ UNCHANGED first_info
       ELSE \E r \in {legacy_get_epub_info(epub_info, archive)} :
                Returned("get_epub_info", <<>>, r) /\ NoteInfo(r)
    /\ UNCHANGED <<archive, input_file, rev, ifile, handle, helper>>

LegacyGetChapters(as_list) ==
    /\ phase = "active" /\ rev = "legacy"
    /\ IF ifile = "" THEN Absent("get_chapters", <<as_list>>)
       ELSE \E r \in {legacy_get_chapters(epub_info, archive, as_list)} :
                Returned("get_chapters", <<as_list>>, r)
    /\ UNCHANGED <<archive, input_file, rev, ifile, handle, first_info, helper>>

\* the caller catches the exception a method raised and goes on
Catch ==
    /\ phase = "raised"
    /\ phase' = "active"
    /\ UNCHANGED <<archive, input_file, rev, ifile, handle, epub_info, op,
                   ret, exc, last_read, copied, first_info, helper>>

\* __exit__ (modules/epupp.py 64-71), run by the with statement of
\* src/__main__.py when its block ends or an exception leaves it: close() of
\* the ZipFile; on "" it raises AttributeError, which the bare except drops.
\* (The earlier revision has no __enter__: no with statement can hold it.)
Exit ==
    /\ phase \in {"active", "raised"} /\ rev = "modules"
    /\ phase' = "ended"
    /\ op' = Call("__exit__", <<>>)
    /\ ret' = None
    /\ last_read' = {}
    /\ handle' = IF ifile = "ZipFile" THEN "closed" ELSE handle
    /\ UNCHANGED <<archive, input_file, rev, ifile, epub_info, exc, copied,
                   first_info, helper>>

\* the end of a driver that holds the session in a plain variable (src/main.py,
\* the __main__ block of src/epupp.py): nothing is called on the session
Finish ==
    /\ phase \in {"active", "raised"}
    /\ phase' = "ended"
    /\ op' = Call("none", <<>>)
    /\ ret' = None
    /\ last_read' = {}
    /\ UNCHANGED <<archive, input_file, rev, ifile, handle, epub_info, exc, copied,
                   first_info, helper>>

\* the environment rewrites the texts of the archive file between two calls
Mutate ==
    /\ phase = "active" /\ ifile = "ZipFile" /\ archive.ver = "v1"
    /\ archive' = [archive EXCEPT !.ver = "v2"]
    /\ UNCHANGED <<input_file, rev, session, helper>>

Next ==
    \/ Construct
    \/ GetEpubInfo
    \/ ExtractImages
    \/ \E e \in BOOLEAN, p \in ImageArgs, l \in BOOLEAN : GetChapters(e, p, l)
    \/ \E n \in OptionalNames : WriteToFile(n)
    \/ LegacyGetEpubInfo
    \/ \E l \in BOOLEAN : LegacyGetChapters(l)
    \/ Catch
    \/ Exit
    \/ Finish

\* the revision of the class the driver imports
Drivers == rev \in {"modules", "legacy"}

\* an archive with every part in place: the six fields, no genres file, no
\* navigation document, the manifest `files` of which `present` are entries
PlainArchive(files, layout, present) ==
    Archive("ok", TRUE, Fields, TRUE, files, layout, present, "missing", NoNcx, "v1")

\* the archives of Spec: every manifest of up to MaxFiles items, every set of
\* them present under every layout
FileArchives ==
    {PlainArchive(f, l, p) :
        f \in SeqsUpTo(ManifestNames, MaxFiles), l \in Layouts, p \in SUBSET ManifestNames}

\* what is at the input path; the archive is of interest when it is a zip file
Inputs(archives) ==
    /\ input_file \in {"valid", "missing", "not_zip"}
    /\ archive \in {a \in archives :
                      input_file # "valid" => a = PlainArchive(<<>>, <<>>, {})}

Init ==
    /\ Inputs({a \in FileArchives :
                 /\ a.present \subseteq Range(a.files)
                 /\ a.present = {} => a.layout = <<>>})
    /\ Drivers
    /\ NewSession(Untracked)
    /\ NoHelper

\* sessions over every manifest, with the package descriptor in place
Spec == Init /\ [][Next]_vars

\* the archives of SpecInfo: every set of fields in the metadata block, and
\* every state of the descriptor, the genres file and the navigation document
InfoArchives ==
    {Archive("ok", m, dc, TRUE, <<N_cover>>, <<>>, {N_cover}, "missing", NoNcx, "v1") :
        m \in BOOLEAN, dc \in SUBSET Fields}
    \cup
    {Archive(cf, TRUE, Fields, TRUE, <<N_cover>>, <<>>, {N_cover}, g, n, "v1") :
        cf \in CfKinds, g \in {"missing", "ok", "bad"},
        n \in {NoNcx, BadNcx, NcxDoc(TRUE, TRUE, <<FullNav>>)}}
    \cup {PlainArchive(<<>>, <<>>, {})}

InitInfo ==
    /\ Inputs({a \in InfoArchives : a.meta \/ a.dc = {}})
    /\ Drivers
    /\ NewSession(None)
    /\ NoHelper

\* the environment replaces the cover image of the archive file, manifest item
\* and entry, by one of another name between two calls
Repack ==
    /\ phase = "active" /\ ifile = "ZipFile"
    /\ archive.files = <<N_cover>> /\ archive.present = {N_cover}
    /\ archive' = [archive EXCEPT !.files = <<N_cover2>>, !.present = {N_cover2}]
    /\ UNCHANGED <<input_file, rev, session, helper>>

NextInfo == Next \/ Mutate \/ Repack

\* sessions over every package descriptor, the archive rewritten and repacked
\* under them
SpecInfo == InitInfo /\ [][NextInfo]_vars

\* the archives of SpecToc: every navigation document of up to MaxNav points
TocArchives ==
    {Archive("ok", TRUE, Fields, TRUE, <<>>, <<>>, {}, "missing", NcxDoc(t, a, nps), "v1") :
        t \in BOOLEAN, a \in BOOLEAN, nps \in SeqsUpTo(NavSources, MaxNav)}
    \cup {PlainArchive(<<>>, <<>>, {}),
          Archive("bad_package", TRUE, Fields, TRUE, <<>>, <<>>, {}, "missing", NoNcx, "v1")}

InitToc ==
    /\ Inputs(TocArchives)
    /\ Drivers
    /\ rev = "legacy" => archive.ncx.navpoints = <<>>
    /\ NewSession(Untracked)
    /\ NoHelper

\* sessions over every navigation document
SpecToc == InitToc /\ [][Next]_vars

\* ------------------------------------------------- the helpers on their own

\* a session that is never constructed, beside a helper under test
NoSession ==
    /\ input_file = "valid"
    /\ archive = PlainArchive(<<>>, <<>>, {})
    /\ rev = "modules"
    /\ NewSession(Untracked)

\* the archive names find_file may ask for, for the reference f, and one more
Candidates(f) == {f, Cat(<<"OPS/">>, f), Cat(<<"OEBPS/">>, f)}

InitFind ==
    /\ NoSession
    /\ fn_in \in [filename : ManifestNames, entries : SUBSET {E_container}, at : SUBSET {0, 1, 2}]
    /\ fn_out = <<>>
    /\ fn_pc = "call"

\* the archive of a find_file call: the candidates chosen by `at`, and the rest
FindEntries(in) ==
    in.entries
    \cup (IF 0 \in in.at THEN {in.filename} ELSE {})
    \cup (IF 1 \in in.at THEN {Cat(<<"OPS/">>, in.filename)} ELSE {})
    \cup (IF 2 \in in.at THEN {Cat(<<"OEBPS/">>, in.filename)} ELSE {})

FindFile ==
    /\ fn_pc = "call"
    /\ fn_out' = find_file(FindEntries(fn_in), fn_in.filename)
    /\ fn_pc' = "done"
    /\ UNCHANGED <<archive, input_file, rev, session, fn_in>>

NextFind == FindFile

\* find_file on every reference and every archive around it
SpecFind == InitFind /\ [][NextFind]_vars

InitLinks ==
    /\ NoSession
    /\ fn_in \in SeqsUpTo(LinkChars, MaxLinkLen)
    /\ fn_out = <<>>
    /\ fn_pc = "call"

RewriteLink ==
    /\ fn_pc = "call"
    /\ fn_out' = rewrite_links(fn_in)
    /\ fn_pc' = "done"
    /\ UNCHANGED <<archive, input_file, rev, session, fn_in>>

NextLinks == RewriteLink

\* rewrite_links on every reference of up to MaxLinkLen characters
SpecLinks == InitLinks /\ [][NextLinks]_vars

\* ================================================================ the claims

\* a get_epub_info call on an opened archive has returned
InfoReturned ==
    /\ op.name = "get_epub_info"
    /\ ifile = "ZipFile"
    /\ exc = "none"

\* ---------------------------------------------------------------------- C1
\* the package descriptor of archive a gives the field k
FieldGiven(a, k) == a.cf = "ok" /\ a.meta /\ k \in a.dc

\* C1: on an opened archive the record get_epub_info returns holds each of the
\* six keys title, language, creator, date, identifier, description with a
\* string value, the empty string for a field the descriptor does not give.
C1_SixStringFields ==
    InfoReturned =>
        /\ ret.type = "dict"
        /\ \A k \in Fields :
              /\ k \in DOMAIN ret.val
              /\ ret.val[k].type = "str"
              /\ ~FieldGiven(archive, k) => ret.val[k].val = EmptyStr

\* ---------------------------------------------------------------------- C2
\* C2: in a session constructed on a path where no file is, get_epub_info,
\* get_chapters and extract_images return None whenever and however often they
\* are called, and no exception escapes any call.
C2_AbsentSession ==
    (input_file = "missing" /\ phase # "new") =>
        /\ ifile = ""
        /\ exc = "none"
        /\ phase \in {"active", "ended"}
        /\ op.name \in {"get_epub_info", "get_chapters", "extract_images"} => ret = None

\* extract_images of a session on a missing path returned None and left the
\* record empty
C2_Witness ==
    /\ input_file = "missing"
    /\ phase = "active"
    /\ op.name = "extract_images"
    /\ ret = None
    /\ exc = "none"
    /\ epub_info = EmptyDict

\* ---------------------------------------------------------------------- C3
\* a step that is a call of get_epub_info of modules/epupp.py on an opened
\* archive, after an earlier call of it returned
LaterInfoCall ==
    /\ rev = "modules"
    /\ phase = "active"
    /\ ifile = "ZipFile"
    /\ first_info # None
    /\ archive' = archive
    /\ op'.name = "get_epub_info"

C4_ReleasedOnEveryExit ==
    /\ (phase = "ended" /\ ifile = "ZipFile") => handle = "closed"
    /\ phase \in {"active", "raised"} => handle # "closed"

\* ---------------------------------------------------------------------- C5
\* C5: find_file returns the first of ref, "OPS/"+ref, "OEBPS/"+ref that is in
\* the archive, and the unmodified ref when none of the three is.
C5_FirstCandidateOrOriginal ==
    fn_pc = "done" =>
        LET f == fn_in.filename
            e == FindEntries(fn_in)
        IN  fn_out = IF f \in e THEN f
                     ELSE IF Cat(<<"OPS/">>, f) \in e THEN Cat(<<"OPS/">>, f)
                     ELSE IF Cat(<<"OEBPS/">>, f) \in e THEN Cat(<<"OEBPS/">>, f)
                     ELSE f

\* ---------------------------------------------------------------------- C6
\* a navigation point with its id attribute, its label text and its target
WellFormed(n) == n.id /\ n.label /\ n.src

\* the places, in document order, of the well-formed points of a document
RECURSIVE WellFormedPlaces(_, _)
WellFormedPlaces(nps, i) ==
    IF i > Len(nps) THEN <<>>
    ELSE (IF WellFormed(nps[i]) THEN <<i>> ELSE <<>>) \o WellFormedPlaces(nps, i + 1)

\* C6: the navpoints of the table of contents are exactly the navigation points
\* of the navigation document that have id, label and target, in document order.
C6_ExactlyWellFormedPoints ==
    (rev = "modules" /\ InfoReturned /\ archive.ncx.kind = "doc"
       /\ "table_of_contents" \in DOMAIN ret.val) =>
        LET out == ret.val["table_of_contents"].val.navpoints
        IN  [i \in 1..Len(out) |-> out[i].raw_id] = WellFormedPlaces(archive.ncx.navpoints, 1)

\* ---------------------------------------------------------------------- C7
\* the places of a reference where "#" stands after a run of non-whitespace that
\* starts the reference and before one more non-whitespace character
Cuts(link) ==
    {i \in 2..(Len(link) - 1) :
        /\ link[i] = "#"
        /\ \A j \in 1..(i - 1) : NonSpace(link[j])
        /\ NonSpace(link[i + 1])}

\* "#<fragment>" of a reference of the form <non-whitespace run>#<fragment>: from
\* the last such "#" to the end of the non-whitespace around it
HashFragment(link) ==
    LET cut == CHOOSE i \in Cuts(link) : \A j \in Cuts(link) : j <= i
        end == CHOOSE e \in cut..Len(link) :
                  /\ \A j \in cut..e : NonSpace(link[j])
                  /\ e = Len(link) \/ ~NonSpace(link[e + 1])
    IN  SubSeq(link, cut, end)

C8_CoverFromCopiedImage ==
    /\ "cover" \in DOMAIN epub_info =>
          \E f \in copied :
              /\ f \in Range(archive.files)
              /\ Contains(f, "images")
              /\ Contains(f, "cover")
              /\ "book_dir" \in DOMAIN epub_info
              /\ epub_info["cover"] = Value("str", Join(epub_info["book_dir"].val, f))
    /\ (\A f \in Range(archive.files) : ~Contains(f, "cover")) => "cover" \notin DOMAIN epub_info

\* the cover was taken from images/cover.jpg, with cover.xml beside it in the
\* manifest
C8_Witness ==
    /\ "cover" \in DOMAIN epub_info
    /\ op.name = "extract_images"
    /\ archive.files = <<N_page, N_cover>>
    /\ N_cover \in copied

\* ---------------------------------------------------------------------- C9
\* the content-type filter of the revision
PassesFilter(f) ==
    IF rev = "modules" THEN Contains(f, ".htm") \/ Contains(f, ".xml")
    ELSE Contains(f, "htm") \/ Contains(f, "xml")

\* the manifest items of archive a, from the i-th on, that pass the filter and
\* can be read under one of the names of Candidates
RECURSIVE ReadableContent(_, _)
ReadableContent(a, i) ==
    IF i > Len(a.files) THEN <<>>
    ELSE (IF PassesFilter(a.files[i]) /\ Candidates(a.files[i]) \cap Entries(a) # {}
          THEN <<a.files[i]>> ELSE <<>>) \o ReadableContent(a, i + 1)

\* the chapter elements of a get_chapters result, of either form
ChapterElements(r) ==
    IF r.type = "list" THEN [i \in 1..Len(r.val) |-> r.val[i].val.markup]
    ELSE r.val.markup.children

\* the id attribute of an element, <<>> when it has none
IdOf(element) ==
    IF "id" \in DOMAIN element.attrib THEN element.attrib["id"] ELSE <<>>

\* C9: in either form get_chapters returns, in manifest order, one chapter for
\* each manifest item that passes the content-type filter and can be read, with
\* the item's reference as its id.
C9_OneChapterPerReadableItem ==
    (op.name = "get_chapters" /\ ifile = "ZipFile" /\ exc = "none") =>
        LET chapters == ChapterElements(ret)
        IN  [i \in 1..Len(chapters) |-> IdOf(chapters[i])] = ReadableContent(archive, 1)

\* ---------------------------------------------------------------------- C10
\* C10: the constructor lets no exception escape, and leaves "" as the handle,
\* when no file is at the input path and when the file there is no archive.
C10_SoftFailure ==
    (phase # "new" /\ input_file \in {"missing", "not_zip"}) =>
        /\ phase # "ctor_raised"
        /\ ifile = ""

\* ---------------------------------------------------------------------- C11
\* get_chapters of modules/epupp.py returned, called with image extraction on
\* and images_path left unset
ExtractingChaptersReturned ==
    /\ rev = "modules"
    /\ op.name = "get_chapters"
    /\ ifile = "ZipFile"
    /\ exc = "none"
    /\ op.args[1]
    /\ op.args[2] = NoPath

\* C11: the image prefix of the chapters that get_chapters returns, run with
\* image extraction and no images_path, is the directory extract_images put the
\* assets into during the call, on the first call of a session as on later ones.
C11_PrefixIsExtractionDirectory ==
    ExtractingChaptersReturned =>
        /\ "images" \in DOMAIN epub_info
        /\ \A i \in 1..Len(ChapterElements(ret)) :
              ChapterElements(ret)[i].images = epub_info["images"].val

\* ---------------------------------------------------------------------- C12
\* C12: a key of epub_info, once stored, keeps its value through every later
\* operation of the session.
C12_FieldsNeverChange ==
    [][rev = "modules" =>
          \A k \in DOMAIN epub_info :
              k \in DOMAIN epub_info' /\ epub_info'[k] = epub_info[k]]_vars

\* ---------------------------------------------------------------------- C13
\* a step that is a call of get_epub_info, get_chapters or extract_images of
\* modules/epupp.py in a session whose record is filled: __get_cftree has read
\* and parsed the package descriptor before
CallAfterDescriptor ==
    /\ rev = "modules"
    /\ phase = "active"
    /\ ifile = "ZipFile"
    /\ DOMAIN epub_info # {}
    /\ archive' = archive
    /\ op'.name \in {"get_epub_info", "get_chapters", "extract_images"}

\* C13: once the package descriptor has been read and parsed, no later
\* get_epub_info, get_chapters or extract_images call of the session reads
\* container.xml or the package document again.
C13_DescriptorParsedOnce ==
    [][CallAfterDescriptor => last_read' \cap {E_container, E_package} = {}]_vars

\* ---------------------------------------------------------------------- C14
\* C14: a content document that cannot be parsed costs get_chapters nothing but
\* that chapter: no exception leaves the call, the result holds a chapter for
\* every manifest item that passes the filter and can be read, and the chapter
\* of an unparsable document is an empty element.
C14_UnparsableChapterIsEmpty ==
    (op.name = "get_chapters" /\ ifile = "ZipFile") =>
        /\ exc = "none"
        /\ LET chapters == ChapterElements(ret)
               items == ReadableContent(archive, 1)
           IN  /\ Len(chapters) = Len(items)
               /\ \A i \in 1..Len(items) :
                     DocKind(items[i]) = "empty" => chapters[i].body = EmptyStr

\* ---------------------------------------------------------------------- C15
\* a method of modules/epupp.py was called on an opened archive whose package
\* descriptor cannot be had: no container.xml, no rootfile reference in it, no
\* package document, or one that does not parse (the genres file and the
\* navigation document being no obstacle)
CalledWithoutDescriptor ==
    /\ rev = "modules"
    /\ ifile = "ZipFile"
    /\ archive.cf \in {"no_container", "no_rootfile", "no_package", "bad_package"}
    /\ archive.genres # "bad"
    /\ archive.ncx.kind # "bad"
    /\ op.name \in {"get_epub_info", "get_chapters", "extract_images"}

\* C15: without a package descriptor no exception leaves get_epub_info,
\* get_chapters or extract_images: the six fields are empty strings and there
\* are no chapters.
C15_LocatorNeverRaises ==
    CalledWithoutDescriptor =>
        /\ exc = "none"
        /\ op.name = "get_epub_info" =>
              \A k \in Fields : k \in DOMAIN ret.val /\ ret.val[k] = Value("str", EmptyStr)
        /\ op.name = "get_chapters" => ChapterElements(ret) = <<>>

\* ---------------------------------------------------------------------- C16
\* what a text of the navigation document comes to in the table of contents:
\* the text when the document has it, None when not
Recovered(has, what, ver) == IF has THEN Value("str", Text(what, ver)) ELSE None

\* C16: the title, the author and the navigation points of the table of
\* contents are each what the navigation document gives for them, whatever it
\* gives for the other two; with no navigation document they are None, None
\* and the empty sequence.
C16_TocPartsIndependent ==
    (rev = "modules" /\ InfoReturned /\ archive.ncx.kind \in {"doc", "none"}
       /\ "table_of_contents" \in DOMAIN ret.val) =>
        LET toc == ret.val["table_of_contents"].val
        IN  /\ toc.title = Recovered(archive.ncx.title, "docTitle", archive.ver)
            /\ toc.author = Recovered(archive.ncx.author, "docAuthor", archive.ver)
            /\ [i \in 1..Len(toc.navpoints) |-> toc.navpoints[i].raw_id]
                   = WellFormedPlaces(archive.ncx.navpoints, 1)

=============================================================================
